---------------------------- MODULE Spec2Model ----------------------------
(***************************************************************************)
(* SoftDeck API (softdeck/api): the entity store (Project, Contributor,    *)
(* Issue, Comment rows) and the request handlers of views.py acting on it. *)
(*                                                                         *)
(* A step of the model is one request handled to completion, except the    *)
(* add-contributor request, whose existence check and INSERT are two       *)
(* statements of an autocommit connection and interleave with other        *)
(* requests.  `response` holds the request last handled and its answer.    *)
(*                                                                         *)
(* Specifications: Spec (projects and memberships from an empty store),    *)
(* SpecIssues (issue and comment creation), SpecTracker (every issue and   *)
(* comment route, contributor list), SpecCascade (operations that add and  *)
(* remove rows across tables), SpecAccounts (account deletion) and SpecAge *)
(* (the age gate of CustomUser over a window of dates).                    *)
(*                                                                         *)
(* Serializer field lists are framework plumbing here: a handler receives  *)
(* the validated relation fields of its model (author, user, project,      *)
(* assigned_to, issue); titles, descriptions and enums carry no policy and *)
(* are left out of the rows.                                               *)
(***************************************************************************)
EXTENDS Integers, FiniteSets, Bags

\* ----------------------------------------------------------------- bounds
MaxProjects == 2        \* project ids handed out (AutoField, never reused)
MaxContributors == 2    \* contributor ids handed out
MaxIssues == 1          \* issue ids handed out
MaxComments == 1        \* comment ids handed out
MaxInFlight == 2        \* add-contributor requests between check and INSERT

Users == {"ua", "ub", "uc"}     \* the authenticated principals
NoUser == "none"                \* a null / missing user reference

ProjectIds == 1..MaxProjects
ContributorIds == 1..MaxContributors
IssueIds == 1..MaxIssues
CommentIds == 1..MaxComments

\* HTTP status codes (rest_framework.status)
HTTP_200_OK == 200
HTTP_201_CREATED == 201
HTTP_204_NO_CONTENT == 204
HTTP_400_BAD_REQUEST == 400
HTTP_403_FORBIDDEN == 403
HTTP_404_NOT_FOUND == 404
HTTP_500_INTERNAL_SERVER_ERROR == 500
InProgress == 0                 \* no answer yet: the request is in flight

VARIABLES
    projects,       \* Project rows      [id, author]
    contributors,   \* Contributor rows  [id, user, project]
    issues,         \* Issue rows        [id, project, assigned_to, author]
    comments,       \* Comment rows      [id, issue, author]
    nextId,         \* ids handed out so far, per table
    inflight,       \* bag of add-contributor requests between the checks and
                    \* the INSERT: [user, project (the row read), target]
    response,       \* the request last handled and its status
    accounts,       \* CustomUser rows: username -> birth_date (NoDate: null)
    today           \* date.today() of the server

vars == <<projects, contributors, issues, comments, nextId, inflight, response,
          accounts, today>>
store == <<projects, contributors, issues, comments>>

\* ------------------------------------------------------------ entity store
ProjectExists(p) == \E r \in projects : r.id = p
ProjectRow(p) == CHOOSE r \in projects : r.id = p
AuthorOf(p) == IF ProjectExists(p) THEN ProjectRow(p).author ELSE NoUser

\* Contributor.objects.filter(user=u, project=p).exists()
ContributorExists(u, p) == \E c \in contributors : c.user = u /\ c.project = p

\* on_delete=CASCADE from Project: its Contributor and Issue rows, and the
\* Comment rows of those issues, go with it.
\* a cascade that stops at the project's own tables
CommentsOfNoIssue(p) == {}

IssuesOfProject(p) == {i \in issues : i.project = p}
CommentsOfProject(p) ==
    {c \in comments : \E i \in IssuesOfProject(p) : c.issue = i.id}

\* the answer to request `op` of principal u
Respond(op, u, status) == response' = [op |-> op, user |-> u, status |-> status]

\* the answer to a list request: 200 and the serialised rows
RespondList(op, u, rows) ==
    response' = [op |-> op, user |-> u, status |-> HTTP_200_OK, rows |-> rows]

\* -------------------------------------------------------------- CustomUser
\* calendar dates [year, month, day] over a window around the age limit
BirthYears == {2008, 2009}
TodayYears == {2023, 2024}
Months == {2, 3}
Days == {1, 28, 29}
IsLeap(y) == (y % 4 = 0 /\ y % 100 # 0) \/ y % 400 = 0
DaysInMonth(y, m) ==
    IF m = 2 THEN (IF IsLeap(y) THEN 29 ELSE 28)
    ELSE IF m \in {4, 6, 9, 11} THEN 30 ELSE 31
DatesOf(years) ==
    {d \in [year : years, month : Months, day : Days] :
        d.day <= DaysInMonth(d.year, d.month)}
BirthDates == DatesOf(BirthYears)
TodayDates == DatesOf(TodayYears)
NoDate == [year |-> 0, month |-> 0, day |-> 0]      \* birth_date is None
Absent == [year |-> -1, month |-> 0, day |-> 0]     \* the payload has no birth_date key
MinAge == 15
ServerDate == [year |-> 2024, month |-> 3, day |-> 1]   \* the date where time plays no part

\* the CustomUser rows that exist
users == DOMAIN accounts

\* Python's (a1, a2) < (b1, b2), and a bool used as an int
TupleLess(a1, a2, b1, b2) == a1 < b1 \/ (a1 = b1 /\ a2 < b2)
BoolToInt(b) == IF b THEN 1 ELSE 0

\* the age without the month/day term
validate_age_years(birth_date) == today.year - birth_date.year

\* validate_age's local `age`
validate_age_age(birth_date) ==
    today.year - birth_date.year
       - BoolToInt(TupleLess(today.month, today.day, birth_date.month, birth_date.day))

\* validate_age(birth_date): TRUE when it returns, FALSE when it raises
validate_age(birth_date) == ~(validate_age_age(birth_date) < MinAge)

\* CustomUser.clean: `if self.birth_date: validate_age(self.birth_date)`
CustomUser_clean(birth_date) == birth_date = NoDate \/ validate_age(birth_date)

\* UserSerializer's birth_date field carries the model field's validators;
\* a null value skips them.
UserSerializer_birth_date_is_valid(birth_date) ==
    birth_date \in {NoDate, Absent} \/ validate_age(birth_date)

\* POST /register/ {username: name, birth_date}: username is unique;
\* create_user ends in CustomUser.save, which runs clean() before the INSERT.
\* A ValidationError out of save is a django exception: a server error.
RegisterUser(name, birth_date) ==
    /\ IF name \in users \/ ~UserSerializer_birth_date_is_valid(birth_date)
       THEN /\ Respond("register", name, HTTP_400_BAD_REQUEST)
            /\ UNCHANGED accounts
       ELSE IF ~CustomUser_clean(birth_date)
       THEN /\ Respond("register", name, HTTP_500_INTERNAL_SERVER_ERROR)
            /\ UNCHANGED accounts
       ELSE /\ accounts' = [x \in users \cup {name} |->
                               IF x = name THEN birth_date ELSE accounts[x]]
            /\ Respond("register", name, HTTP_201_CREATED)
    /\ UNCHANGED <<projects, contributors, issues, comments, nextId, inflight, today>>

\* PATCH /users/{t}/ {birth_date}: UserSerializer.update keeps the stored
\* birth_date when the payload has none, then instance.save() -> clean().
User_partial_update(t, birth_date) ==
    /\ IF t \notin users
       THEN /\ Respond("user_partial_update", t, HTTP_404_NOT_FOUND)
            /\ UNCHANGED accounts
       ELSE IF ~UserSerializer_birth_date_is_valid(birth_date)
       THEN /\ Respond("user_partial_update", t, HTTP_400_BAD_REQUEST)
            /\ UNCHANGED accounts
       ELSE LET saved == IF birth_date = Absent THEN accounts[t] ELSE birth_date
            IN IF ~CustomUser_clean(saved)
               THEN /\ Respond("user_partial_update", t, HTTP_500_INTERNAL_SERVER_ERROR)
                    /\ UNCHANGED accounts
               ELSE /\ accounts' = [accounts EXCEPT ![t] = saved]
                    /\ Respond("user_partial_update", t, HTTP_200_OK)
    /\ UNCHANGED <<projects, contributors, issues, comments, nextId, inflight, today>>

\* ---------------------------------------------------------- ProjectViewSet
\* get_queryset: Project.objects.filter(contributors__user=request.user)
Project_get_queryset(u) ==
    {r \in projects : \E c \in contributors : c.project = r.id /\ c.user = u}

\* get_permissions returns [AllowAny()] for every action.
Project_get_permissions(u, method) == TRUE

\* GenericAPIView.get_object on the scoped queryset
Project_get_object(u, p) == \E r \in Project_get_queryset(u) : r.id = p

\* POST /projects/ : CreateModelMixin.create with the default perform_create
\* (the override is inside a string literal): serializer.save() keeps the
\* author of the payload and adds no Contributor row.
Project_create(u, author) ==
    /\ nextId.project < MaxProjects
    /\ Project_get_permissions(u, "POST")
    /\ IF author = NoUser
       THEN /\ Respond("project_create", u, HTTP_400_BAD_REQUEST)
            /\ UNCHANGED <<projects, nextId>>
       ELSE /\ projects' = projects \cup {[id |-> nextId.project + 1, author |-> author]}
            /\ nextId' = [nextId EXCEPT !.project = @ + 1]
            /\ Respond("project_create", u, HTTP_201_CREATED)
    /\ UNCHANGED <<contributors, issues, comments, inflight>>
    /\ UNCHANGED <<accounts, today>>

\* GET /projects/{p}/
Project_retrieve(u, p) ==
    /\ Project_get_permissions(u, "GET")
    /\ Respond("project_retrieve", u,
               IF Project_get_object(u, p) THEN HTTP_200_OK ELSE HTTP_404_NOT_FOUND)
    /\ UNCHANGED <<projects, contributors, issues, comments, nextId, inflight>>
    /\ UNCHANGED <<accounts, today>>

\* PATCH /projects/{p}/ with {author: a}  (NoUser: the payload leaves author out)
Project_partial_update(u, p, a) ==
    /\ Project_get_permissions(u, "PATCH")
    /\ IF ~Project_get_object(u, p)
       THEN /\ Respond("project_partial_update", u, HTTP_404_NOT_FOUND)
            /\ UNCHANGED projects
       ELSE /\ projects' = IF a = NoUser THEN projects
                           ELSE (projects \ {ProjectRow(p)}) \cup {[id |-> p, author |-> a]}
            /\ Respond("project_partial_update", u, HTTP_200_OK)
    /\ UNCHANGED <<contributors, issues, comments, nextId, inflight>>
    /\ UNCHANGED <<accounts, today>>

\* DELETE /projects/{p}/ : DestroyModelMixin.destroy, instance.delete() cascades
Project_destroy(u, p) ==
    /\ Project_get_permissions(u, "DELETE")
    /\ IF ~Project_get_object(u, p)
       THEN /\ Respond("project_destroy", u, HTTP_404_NOT_FOUND)
            /\ UNCHANGED <<projects, contributors, issues, comments>>
       ELSE /\ projects' = projects \ {ProjectRow(p)}
            /\ contributors' = {c \in contributors : c.project # p}
            /\ issues' = issues \ IssuesOfProject(p)
            /\ comments' = comments \ CommentsOfProject(p)
            /\ Respond("project_destroy", u, HTTP_204_NO_CONTENT)
    /\ UNCHANGED <<nextId, inflight>>
    /\ UNCHANGED <<accounts, today>>

\* ------------------------------------------------------ ContributorViewSet
\* the author check widened to any member of the project
Contributor_is_project_member(u, p) == AuthorOf(p) = u \/ ContributorExists(u, p)

\* `project.author != self.request.user`, negated (perform_create and destroy)
Contributor_is_project_author(u, p) == AuthorOf(p) = u

\* ContributorSerializer.is_valid on {user: v, project: q}: both primary keys
\* must resolve, and unique_together gives the serializer a
\* UniqueTogetherValidator over the payload's (user, project).
ContributorSerializer_is_valid(v, q) ==
    /\ v \in users
    /\ ProjectExists(q)
    /\ ~ContributorExists(v, q)

\* What POST /projects/{p}/contributors/ {user: v, project: q} by u comes to
\* before anything is written.  perform_create's `return Response(.. 403)` is
\* a return value CreateModelMixin.create drops: create goes on to answer 201
\* with the serializer's data.  The duplicate check raises
\* django.core.exceptions.ValidationError, which the REST framework does not
\* handle: the answer is a server error.
Contributor_create_outcome(u, p, v, q) ==
    IF ~ContributorSerializer_is_valid(v, q) THEN HTTP_400_BAD_REQUEST
    ELSE IF ~ProjectExists(p) THEN HTTP_404_NOT_FOUND
    ELSE IF ~Contributor_is_project_author(u, p) THEN HTTP_201_CREATED
    ELSE IF ContributorExists(v, p) THEN HTTP_500_INTERNAL_SERVER_ERROR
    ELSE InProgress

\* create(): validation and perform_create up to the existence check.  A
\* request goes in flight only while a contributor id is left for it.
Contributor_create(u, p, v, q) ==
    /\ IF Contributor_create_outcome(u, p, v, q) # InProgress
       THEN /\ Respond("contributor_create", u, Contributor_create_outcome(u, p, v, q))
            /\ UNCHANGED inflight
       ELSE /\ BagCardinality(inflight) < MaxInFlight
            /\ nextId.contributor + BagCardinality(inflight) < MaxContributors
            /\ inflight' = inflight (+)
                               SetToBag({[user |-> u, project |-> ProjectRow(p), target |-> v]})
            /\ Respond("contributor_create", u, InProgress)
    /\ UNCHANGED <<projects, contributors, issues, comments, nextId>>
    /\ UNCHANGED <<accounts, today>>

\* The INSERT of serializer.save(project=project) meets the table's
\* constraints: the user and project rows must still be there (foreign keys) and
\* unique_together = ("user", "project") admits one row per pair.
Contributor_insert_allowed(v, p) ==
    v \in users /\ ProjectExists(p) /\ ~ContributorExists(v, p)

\* serializer.save(project=project) of in-flight request r; an
\* IntegrityError is not handled either.
Contributor_create_save(r) ==
    /\ BagIn(r, inflight)
    /\ LET p == r.project.id
       IN IF Contributor_insert_allowed(r.target, p)
          THEN /\ contributors' = contributors \cup
                      {[id |-> nextId.contributor + 1, user |-> r.target, project |-> p]}
               /\ nextId' = [nextId EXCEPT !.contributor = @ + 1]
               /\ Respond("contributor_save", r.user, HTTP_201_CREATED)
          ELSE /\ UNCHANGED <<contributors, nextId>>
               /\ Respond("contributor_save", r.user,
                          HTTP_500_INTERNAL_SERVER_ERROR)
    /\ inflight' = inflight (-) SetToBag({r})
    /\ UNCHANGED <<projects, issues, comments>>
    /\ UNCHANGED <<accounts, today>>

\* destroy with the row looked up before the author is checked
Contributor_destroy_row_first(u, p, cid) ==
    /\ IF ~ProjectExists(p)
       THEN /\ Respond("contributor_destroy", u, HTTP_404_NOT_FOUND)
            /\ UNCHANGED contributors
       ELSE IF ~\E c \in contributors : c.id = cid /\ c.project = p
       THEN /\ Respond("contributor_destroy", u, HTTP_404_NOT_FOUND)
            /\ UNCHANGED contributors
       ELSE IF ~Contributor_is_project_author(u, p)
       THEN /\ Respond("contributor_destroy", u, HTTP_403_FORBIDDEN)
            /\ UNCHANGED contributors
       ELSE /\ contributors' = {c \in contributors : ~(c.id = cid /\ c.project = p)}
            /\ Respond("contributor_destroy", u, HTTP_204_NO_CONTENT)
    /\ UNCHANGED <<projects, issues, comments, nextId, inflight>>
    /\ UNCHANGED <<accounts, today>>

\* DELETE /projects/{p}/contributors/{cid}/
Contributor_destroy(u, p, cid) ==
    /\ IF ~ProjectExists(p)
       THEN /\ Respond("contributor_destroy", u, HTTP_404_NOT_FOUND)
            /\ UNCHANGED contributors
       ELSE IF ~Contributor_is_project_author(u, p)
       THEN /\ Respond("contributor_destroy", u, HTTP_403_FORBIDDEN)
            /\ UNCHANGED contributors
       ELSE IF ~\E c \in contributors : c.id = cid /\ c.project = p
       THEN /\ Respond("contributor_destroy", u, HTTP_404_NOT_FOUND)
            /\ UNCHANGED contributors
       ELSE /\ contributors' = {c \in contributors : ~(c.id = cid /\ c.project = p)}
            /\ Respond("contributor_destroy", u, HTTP_204_NO_CONTENT)
    /\ UNCHANGED <<projects, issues, comments, nextId, inflight>>
    /\ UNCHANGED <<accounts, today>>

\* GET /projects/{p}/contributors/ : get_queryset filters on the URL's
\* project_pk alone, whoever asks
Contributor_get_queryset(u, p) == {c \in contributors : c.project = p}

Contributor_list(u, p) ==
    /\ RespondList("contributor_list", u, Contributor_get_queryset(u, p))
    /\ UNCHANGED <<projects, contributors, issues, comments, nextId, inflight,
                   accounts, today>>

\* ------------------------------------------------------------ IssueViewSet
\* serializer.save() without the keyword: the payload's author is kept
Issue_payload_author(u, a) == a

\* serializer.save(author=self.request.user): the keyword overrides the payload
Issue_perform_create_author(u, a) == u

\* POST .../issues/ {project: p, assigned_to: v, author: a} by u.
\* perform_create saves first and checks the assignee afterwards: the
\* ValidationError answers 400 with the row already inserted (autocommit).
Issue_create(u, p, v, a) ==
    /\ nextId.issue < MaxIssues
    /\ IF ~ProjectExists(p) \/ a = NoUser
       THEN /\ Respond("issue_create", u, HTTP_400_BAD_REQUEST)
            /\ UNCHANGED <<issues, nextId>>
       ELSE /\ issues' = issues \cup
                   {[id |-> nextId.issue + 1, project |-> p, assigned_to |-> v,
                     author |-> Issue_perform_create_author(u, a)]}
            /\ nextId' = [nextId EXCEPT !.issue = @ + 1]
            /\ Respond("issue_create", u,
                       IF v # NoUser /\ ~ContributorExists(v, p)
                       THEN HTTP_400_BAD_REQUEST ELSE HTTP_201_CREATED)
    /\ UNCHANGED <<projects, contributors, comments, inflight>>
    /\ UNCHANGED <<accounts, today>>

\* ---------------------------------------------------------- Issue lookups
IssueExists(i) == \E r \in issues : r.id = i
IssueRow(i) == CHOOSE r \in issues : r.id = i
CommentsOfIssue(i) == {c \in comments : c.issue = i}

\* Issue.objects.all(): the queryset without the membership filter
Issue_objects_all(u) == issues

\* get_queryset: Issue.objects.filter(project__contributors__user=request.user)
Issue_get_queryset(u) == {i \in issues : ContributorExists(u, i.project)}
Issue_get_object(u, i) == \E r \in Issue_get_queryset(u) : r.id = i

\* permission_classes = [AllowAny]: no object permission looks at the author
Issue_check_object_permissions(u, i, method) == TRUE

\* GET /issues/
Issue_list(u) ==
    /\ RespondList("issue_list", u, Issue_get_queryset(u))
    /\ UNCHANGED <<projects, contributors, issues, comments, nextId, inflight,
                   accounts, today>>

\* GET /issues/{i}/
Issue_retrieve(u, i) ==
    /\ Respond("issue_retrieve", u,
               IF ~Issue_get_object(u, i) THEN HTTP_404_NOT_FOUND
               ELSE IF ~Issue_check_object_permissions(u, i, "GET") THEN HTTP_403_FORBIDDEN
               ELSE HTTP_200_OK)
    /\ UNCHANGED <<projects, contributors, issues, comments, nextId, inflight,
                   accounts, today>>

\* PATCH /issues/{i}/ {assigned_to: v, author: a} (NoUser: the key is left
\* out).  UpdateModelMixin's perform_update is serializer.save(): no check of
\* the assignee's membership, and the payload's author is written.
Issue_partial_update(u, i, v, a) ==
    /\ IF ~Issue_get_object(u, i)
       THEN /\ Respond("issue_partial_update", u, HTTP_404_NOT_FOUND)
            /\ UNCHANGED issues
       ELSE IF ~Issue_check_object_permissions(u, i, "PATCH")
       THEN /\ Respond("issue_partial_update", u, HTTP_403_FORBIDDEN)
            /\ UNCHANGED issues
       ELSE /\ issues' = (issues \ {IssueRow(i)}) \cup
                   {[IssueRow(i) EXCEPT
                        !.assigned_to = IF v = NoUser THEN @ ELSE v,
                        !.author = IF a = NoUser THEN @ ELSE a]}
            /\ Respond("issue_partial_update", u, HTTP_200_OK)
    /\ UNCHANGED <<projects, contributors, comments, nextId, inflight, accounts, today>>

\* DELETE /issues/{i}/ : instance.delete() takes the issue's comments along
Issue_destroy(u, i) ==
    /\ IF ~Issue_get_object(u, i)
       THEN /\ Respond("issue_destroy", u, HTTP_404_NOT_FOUND)
            /\ UNCHANGED <<issues, comments>>
       ELSE IF ~Issue_check_object_permissions(u, i, "DELETE")
       THEN /\ Respond("issue_destroy", u, HTTP_403_FORBIDDEN)
            /\ UNCHANGED <<issues, comments>>
       ELSE /\ issues' = issues \ {IssueRow(i)}
            /\ comments' = comments \ CommentsOfIssue(i)
            /\ Respond("issue_destroy", u, HTTP_204_NO_CONTENT)
    /\ UNCHANGED <<projects, contributors, nextId, inflight, accounts, today>>

\* ---------------------------------------------------------- CommentViewSet

\* serializer.save(author=self.request.user)
Comment_perform_create_author(u, a) == u

\* POST .../comments/ {issue: i, author: a} by u
Comment_create(u, i, a) ==
    /\ nextId.comment < MaxComments
    /\ IF ~IssueExists(i) \/ a = NoUser
       THEN /\ Respond("comment_create", u, HTTP_400_BAD_REQUEST)
            /\ UNCHANGED <<comments, nextId>>
       ELSE /\ comments' = comments \cup
                   {[id |-> nextId.comment + 1, issue |-> i,
                     author |-> Comment_perform_create_author(u, a)]}
            /\ nextId' = [nextId EXCEPT !.comment = @ + 1]
            /\ Respond("comment_create", u, HTTP_201_CREATED)
    /\ UNCHANGED <<projects, contributors, issues, inflight>>
    /\ UNCHANGED <<accounts, today>>

CommentExists(c) == \E r \in comments : r.id = c
CommentRow(c) == CHOOSE r \in comments : r.id = c

\* get_queryset:
\* Comment.objects.filter(issue__project__contributors__user=request.user)
Comment_get_queryset(u) ==
    {c \in comments :
        \E i \in issues : i.id = c.issue /\ ContributorExists(u, i.project)}
Comment_get_object(u, c) == \E r \in Comment_get_queryset(u) : r.id = c

\* permission_classes = [AllowAny]
Comment_check_object_permissions(u, c, method) == TRUE

\* GET /comments/
Comment_list(u) ==
    /\ RespondList("comment_list", u, Comment_get_queryset(u))
    /\ UNCHANGED <<projects, contributors, issues, comments, nextId, inflight,
                   accounts, today>>

\* GET /comments/{c}/
Comment_retrieve(u, c) ==
    /\ Respond("comment_retrieve", u,
               IF ~Comment_get_object(u, c) THEN HTTP_404_NOT_FOUND
               ELSE IF ~Comment_check_object_permissions(u, c, "GET") THEN HTTP_403_FORBIDDEN
               ELSE HTTP_200_OK)
    /\ UNCHANGED <<projects, contributors, issues, comments, nextId, inflight,
                   accounts, today>>

\* PATCH /comments/{c}/ {author: a} (NoUser: the key is left out)
Comment_partial_update(u, c, a) ==
    /\ IF ~Comment_get_object(u, c)
       THEN /\ Respond("comment_partial_update", u, HTTP_404_NOT_FOUND)
            /\ UNCHANGED comments
       ELSE IF ~Comment_check_object_permissions(u, c, "PATCH")
       THEN /\ Respond("comment_partial_update", u, HTTP_403_FORBIDDEN)
            /\ UNCHANGED comments
       ELSE /\ comments' = (comments \ {CommentRow(c)}) \cup
                   {[CommentRow(c) EXCEPT !.author = IF a = NoUser THEN @ ELSE a]}
            /\ Respond("comment_partial_update", u, HTTP_200_OK)
    /\ UNCHANGED <<projects, contributors, issues, nextId, inflight, accounts, today>>

\* DELETE /comments/{c}/
Comment_destroy(u, c) ==
    /\ IF ~Comment_get_object(u, c)
       THEN /\ Respond("comment_destroy", u, HTTP_404_NOT_FOUND)
            /\ UNCHANGED comments
       ELSE IF ~Comment_check_object_permissions(u, c, "DELETE")
       THEN /\ Respond("comment_destroy", u, HTTP_403_FORBIDDEN)
            /\ UNCHANGED comments
       ELSE /\ comments' = comments \ {CommentRow(c)}
            /\ Respond("comment_destroy", u, HTTP_204_NO_CONTENT)
    /\ UNCHANGED <<projects, contributors, issues, nextId, inflight, accounts, today>>

\* ---------------------------------------------------------- UserDetailView
\* on_delete=CASCADE from CustomUser: Project.author, Contributor.user,
\* Issue.author, Issue.assigned_to, Comment.author
User_cascade_projects(t) == {r \in projects : r.author = t}

\* the issues a cascade through author and project alone would take
User_cascade_issues_authored(t) ==
    {i \in issues : i.author = t \/ \E r \in User_cascade_projects(t) : i.project = r.id}

User_cascade_issues(t) ==
    {i \in issues : \/ i.author = t
                    \/ i.assigned_to = t
                    \/ \E r \in User_cascade_projects(t) : i.project = r.id}

User_cascade_comments(t) ==
    {c \in comments : c.author = t \/ \E i \in User_cascade_issues(t) : c.issue = i.id}

User_cascade_contributors(t) ==
    {c \in contributors :
        c.user = t \/ \E r \in User_cascade_projects(t) : c.project = r.id}

\* DELETE /users/{t}/ : permission_classes = [AllowAny], the requester plays
\* no part; instance.delete() collects and deletes in one transaction.
User_destroy(t) ==
    /\ IF t \notin users
       THEN /\ Respond("user_destroy", t, HTTP_404_NOT_FOUND)
            /\ UNCHANGED <<projects, contributors, issues, comments, accounts>>
       ELSE /\ projects' = projects \ User_cascade_projects(t)
            /\ contributors' = contributors \ User_cascade_contributors(t)
            /\ issues' = issues \ User_cascade_issues(t)
            /\ comments' = comments \ User_cascade_comments(t)
            /\ accounts' = [x \in users \ {t} |-> accounts[x]]
            /\ Respond("user_destroy", t, HTTP_204_NO_CONTENT)
    /\ UNCHANGED <<nextId, inflight, today>>

\* ------------------------------------------------------------------- system
Init ==
    /\ projects = {}
    /\ contributors = {}
    /\ issues = {}
    /\ comments = {}
    /\ nextId = [project |-> 0, contributor |-> 0, issue |-> 0, comment |-> 0]
    /\ inflight = EmptyBag
    /\ response = [op |-> "none", user |-> NoUser, status |-> InProgress]
    /\ accounts = [x \in Users |-> NoDate]
    /\ today = ServerDate

Next ==
    \/ \E u \in Users, a \in Users \cup {NoUser} : Project_create(u, a)
    \/ \E u \in Users, p \in ProjectIds : Project_retrieve(u, p)
    \/ \E u \in Users, p \in ProjectIds, a \in Users \cup {NoUser} :
          Project_partial_update(u, p, a)
    \/ \E u \in Users, p \in ProjectIds : Project_destroy(u, p)
    \/ \E u \in Users, p \in ProjectIds, v \in Users \cup {NoUser}, q \in ProjectIds :
          Contributor_create(u, p, v, q)
    \/ \E r \in BagToSet(inflight) : Contributor_create_save(r)
    \/ \E u \in Users, p \in ProjectIds, cid \in ContributorIds :
          Contributor_destroy(u, p, cid)

Spec == Init /\ [][Next]_vars

\* ------------------------------------------------- issues and comments
\* Issue and comment creation, over a store the team operations above reach
\* (TeamSeed is reachable under Spec): project 1 of ua with members ua and
\* ub, project 2 of ub without any member; uc belongs to nothing.
TeamSeed ==
    /\ projects = {[id |-> 1, author |-> "ua"], [id |-> 2, author |-> "ub"]}
    /\ contributors = {[id |-> 1, user |-> "ua", project |-> 1],
                       [id |-> 2, user |-> "ub", project |-> 1]}
    /\ inflight = EmptyBag

InitIssues ==
    /\ TeamSeed
    /\ issues = {}
    /\ comments = {}
    /\ nextId = [project |-> 2, contributor |-> 2, issue |-> 0, comment |-> 0]
    /\ response = [op |-> "none", user |-> NoUser, status |-> InProgress]
    /\ accounts = [x \in Users |-> NoDate]
    /\ today = ServerDate

NextIssues ==
    \/ \E u \in Users, p \in ProjectIds, v \in Users \cup {NoUser},
          a \in Users \cup {NoUser} : Issue_create(u, p, v, a)
    \/ \E u \in Users, i \in IssueIds, a \in Users \cup {NoUser} : Comment_create(u, i, a)

SpecIssues == InitIssues /\ [][NextIssues]_vars

\* ------------------------------------------------------------- tracker
\* Every route over issues and comments, and the contributor list, over the
\* team of TeamSeed.
NextTracker ==
    \/ \E u \in Users, p \in ProjectIds, v \in Users \cup {NoUser},
          a \in Users \cup {NoUser} : Issue_create(u, p, v, a)
    \/ \E u \in Users : Issue_list(u)
    \/ \E u \in Users, i \in IssueIds : Issue_retrieve(u, i)
    \/ \E u \in Users, i \in IssueIds, v \in Users \cup {NoUser},
          a \in Users \cup {NoUser} : Issue_partial_update(u, i, v, a)
    \/ \E u \in Users, i \in IssueIds : Issue_destroy(u, i)
    \/ \E u \in Users, i \in IssueIds, a \in Users \cup {NoUser} : Comment_create(u, i, a)
    \/ \E u \in Users : Comment_list(u)
    \/ \E u \in Users, c \in CommentIds : Comment_retrieve(u, c)
    \/ \E u \in Users, c \in CommentIds, a \in Users \cup {NoUser} :
          Comment_partial_update(u, c, a)
    \/ \E u \in Users, c \in CommentIds : Comment_destroy(u, c)
    \/ \E u \in Users, p \in ProjectIds : Contributor_list(u, p)

SpecTracker == InitIssues /\ [][NextTracker]_vars

\* ------------------------------------------------------------- cascades
\* The operations that add and remove rows across tables, from a store Spec
\* reaches: project 1 of ua with ua enrolled, project 2 of ub with nobody
\* enrolled.
InitCascade ==
    /\ projects = {[id |-> 1, author |-> "ua"], [id |-> 2, author |-> "ub"]}
    /\ contributors = {[id |-> 1, user |-> "ua", project |-> 1]}
    /\ issues = {}
    /\ comments = {}
    /\ nextId = [project |-> 2, contributor |-> 1, issue |-> 0, comment |-> 0]
    /\ inflight = EmptyBag
    /\ response = [op |-> "none", user |-> NoUser, status |-> InProgress]
    /\ accounts = [x \in Users |-> NoDate]
    /\ today = ServerDate

NextCascade ==
    \/ \E u \in Users, p \in ProjectIds, v \in Users \cup {NoUser},
          a \in Users \cup {NoUser} : Issue_create(u, p, v, a)
    \/ \E u \in Users, i \in IssueIds, v \in Users \cup {NoUser},
          a \in Users \cup {NoUser} : Issue_partial_update(u, i, v, a)
    \/ \E u \in Users, i \in IssueIds, a \in Users \cup {NoUser} : Comment_create(u, i, a)
    \/ \E u \in Users, p \in ProjectIds : Project_destroy(u, p)
    \/ \E u \in Users, p \in ProjectIds, v \in Users \cup {NoUser}, q \in ProjectIds :
          Contributor_create(u, p, v, q)
    \/ \E r \in BagToSet(inflight) : Contributor_create_save(r)
    \/ \E u \in Users, p \in ProjectIds, cid \in ContributorIds :
          Contributor_destroy(u, p, cid)

SpecCascade == InitCascade /\ [][NextCascade]_vars

\* ------------------------------------------------------------- accounts
\* Account deletion over the team of TeamSeed and the issues and comments
\* its accounts create and re-assign.
NextAccounts ==
    \/ \E u \in users, p \in ProjectIds, v \in users \cup {NoUser},
          a \in users \cup {NoUser} : Issue_create(u, p, v, a)
    \/ \E u \in users, i \in IssueIds, v \in users \cup {NoUser},
          a \in users \cup {NoUser} : Issue_partial_update(u, i, v, a)
    \/ \E u \in users, i \in IssueIds, a \in users \cup {NoUser} : Comment_create(u, i, a)
    \/ \E t \in Users : User_destroy(t)

SpecAccounts == InitIssues /\ [][NextAccounts]_vars

\* ------------------------------------------------------------ age gate
\* validate_age as a function of (birth_date, today): registration and
\* profile update over every pair of dates of the window.
Registrants == {"ua", "ub"}

InitAge ==
    /\ projects = {}
    /\ contributors = {}
    /\ issues = {}
    /\ comments = {}
    /\ nextId = [project |-> 0, contributor |-> 0, issue |-> 0, comment |-> 0]
    /\ inflight = EmptyBag
    /\ response = [op |-> "none", user |-> NoUser, status |-> InProgress]
    /\ accounts = [x \in {} |-> NoDate]
    /\ today \in TodayDates

NextAge ==
    \/ \E name \in Registrants, birth_date \in BirthDates \cup {NoDate} :
          RegisterUser(name, birth_date)
    \/ \E t \in Registrants, birth_date \in BirthDates \cup {NoDate, Absent} :
          User_partial_update(t, birth_date)

SpecAge == InitAge /\ [][NextAge]_vars

\* ------------------------------------------------------------ properties
ConflictStatuses == {HTTP_400_BAD_REQUEST, 409}
DeniedStatuses == {HTTP_403_FORBIDDEN, HTTP_404_NOT_FOUND}
RowsOfPair(rows, u, p) == {c \in rows : c.user = u /\ c.project = p}
RowsOutside(rows, p) == {c \in rows : c.project # p}

\* C1: a GET of an existing project P by U answers 200 exactly when U is P's
\* author or holds a Contributor row for P, and otherwise 403 or 404.
C1_ReadIffAuthorOrContributor ==
    [][\A u \in Users, p \in ProjectIds :
          (Project_retrieve(u, p) /\ ProjectExists(p)) =>
             /\ response'.status = HTTP_200_OK <=>
                   (AuthorOf(p) = u \/ ContributorExists(u, p))
             /\ response'.status # HTTP_200_OK => response'.status \in DeniedStatuses]_vars

\* C2: a DELETE or PATCH of an existing project P succeeds for P's author
\* (DELETE answers 204 and removes P); for any other principal it answers 403
\* and leaves the Project rows as they were.
C2_OnlyAuthorDeletesOrPatches ==
    [][\A u \in Users, p \in ProjectIds :
          /\ (Project_destroy(u, p) /\ ProjectExists(p)) =>
                IF AuthorOf(p) = u
                THEN /\ response'.status = HTTP_204_NO_CONTENT
                     /\ ~\E r \in projects' : r.id = p
                ELSE response'.status = HTTP_403_FORBIDDEN /\ projects' = projects
          /\ \A a \in Users \cup {NoUser} :
                (Project_partial_update(u, p, a) /\ ProjectExists(p)) =>
                   IF AuthorOf(p) = u
                   THEN response'.status = HTTP_200_OK
                   ELSE response'.status = HTTP_403_FORBIDDEN /\ projects' = projects]_vars

\* C3: a successful project creation by U leaves the new project with exactly
\* one Contributor row (U, P); a failed one leaves no project and no row.
C3_CreatorEnrolledOnce ==
    [][\A u \in Users, a \in Users \cup {NoUser} :
          Project_create(u, a) =>
             IF response'.status = HTTP_201_CREATED
             THEN \E r \in projects' \ projects :
                     Cardinality(RowsOfPair(contributors', u, r.id)) = 1
             ELSE projects' = projects /\ contributors' = contributors]_vars

\* C4: the store never holds two Contributor rows for one (user, project)
\* pair, and an add-contributor request for a pair that already has a row,
\* at the check or at the INSERT, answers a conflict and creates no row.
C4_DuplicateAddConflicts ==
    [][/\ \A u \in Users, p \in ProjectIds :
             Cardinality(RowsOfPair(contributors', u, p)) <= 1
       /\ \A u \in Users, p \in ProjectIds, v \in Users, q \in ProjectIds :
             (Contributor_create(u, p, v, q) /\ ContributorExists(v, p)) =>
                response'.status \in ConflictStatuses /\ contributors' = contributors
       /\ \A r \in BagToSet(inflight) :
             (Contributor_create_save(r) /\ ContributorExists(r.target, r.project.id)) =>
                response'.status \in ConflictStatuses /\ contributors' = contributors]_vars

\* C5: an add-contributor or remove-contributor request on project P by a
\* principal who is not P's author changes no Contributor row of any project;
\* an INSERT happens only for a requester who was the author of the project
\* row the request read, and such requests touch the rows of P alone.
C5_OnlyAuthorChangesContributors ==
    [][/\ response'.op = "contributor_create" => contributors' = contributors
       /\ response'.op = "contributor_destroy" =>
             \A p \in ProjectIds, cid \in ContributorIds :
                Contributor_destroy(response'.user, p, cid) =>
                   /\ AuthorOf(p) # response'.user => contributors' = contributors
                   /\ RowsOutside(contributors', p) = RowsOutside(contributors, p)
       /\ response'.op = "contributor_save" =>
             \A r \in BagToSet(inflight) :
                Contributor_create_save(r) =>
                   /\ contributors' # contributors => r.project.author = r.user
                   /\ RowsOutside(contributors', r.project.id)
                         = RowsOutside(contributors, r.project.id)]_vars

\* a contributor who is not the author asked to enrol someone, was answered,
\* and the rows are as before
C5_Witness ==
    /\ response.op = "contributor_create"
    /\ response.status = HTTP_201_CREATED
    /\ \E p \in ProjectIds :
          /\ ProjectExists(p)
          /\ AuthorOf(p) # response.user
          /\ ContributorExists(response.user, p)
          /\ Cardinality(RowsOutside(contributors, p)) < Cardinality(contributors)

\* C6: a well-formed add-contributor request on P by a contributor of P who
\* is not P's author is answered 403.
C6_NonAuthorAddForbidden ==
    [][\A u \in Users, p \in ProjectIds, v \in Users, q \in ProjectIds :
          (/\ Contributor_create(u, p, v, q)
           /\ ContributorSerializer_is_valid(v, q)
           /\ ProjectExists(p) /\ AuthorOf(p) # u /\ ContributorExists(u, p)) =>
             response'.status = HTTP_403_FORBIDDEN]_vars

\* C7: creating an Issue in P with an assignee who holds no Contributor row
\* for P answers a validation failure and leaves the store unchanged.
C7_BadAssigneeLeavesNoIssue ==
    [][\A u \in Users, p \in ProjectIds, v \in Users, a \in Users \cup {NoUser} :
          (Issue_create(u, p, v, a) /\ ProjectExists(p) /\ ~ContributorExists(v, p)) =>
             response'.status = HTTP_400_BAD_REQUEST /\ store' = store]_vars

\* C8: every Issue and every Comment a create request persists has the
\* requesting principal as its author, whatever author the payload names.
C8_AuthorIsRequester ==
    [][/\ response'.op = "issue_create" =>
             \A p \in ProjectIds, v \in Users \cup {NoUser}, a \in Users \cup {NoUser} :
                Issue_create(response'.user, p, v, a) =>
                   \A i \in issues' \ issues : i.author = response'.user
       /\ response'.op = "comment_create" =>
             \A i \in IssueIds, a \in Users \cup {NoUser} :
                Comment_create(response'.user, i, a) =>
                   \A c \in comments' \ comments : c.author = response'.user]_vars

\* a comment was just created by a principal other than the issue's author,
\* and both rows carry their own requester
C8_Witness ==
    /\ response.op = "comment_create"
    /\ response.status = HTTP_201_CREATED
    /\ \E c \in comments, i \in issues :
          c.issue = i.id /\ c.author = response.user /\ i.author # c.author

\* C9: a project a create request persists has the requester as its author.
C9_ProjectAuthorIsRequester ==
    [][\A u \in Users, a \in Users \cup {NoUser} :
          Project_create(u, a) => \A r \in projects' \ projects : r.author = u]_vars

\* C10: a well-formed create request for an Issue in P, or for a Comment on
\* an issue of P, by a principal without a Contributor row for P is denied
\* and persists nothing.
C10_OnlyContributorsCreate ==
    [][/\ \A u \in Users, p \in ProjectIds, v \in Users \cup {NoUser}, a \in Users :
             (/\ Issue_create(u, p, v, a)
              /\ ProjectExists(p) /\ ~ContributorExists(u, p)
              /\ (v = NoUser \/ ContributorExists(v, p))) =>
                response'.status \in DeniedStatuses /\ issues' = issues
       /\ \A u \in Users, i \in IssueIds, a \in Users :
             (/\ Comment_create(u, i, a)
              /\ IssueExists(i) /\ ~ContributorExists(u, IssueRow(i).project)) =>
                response'.status \in DeniedStatuses /\ comments' = comments]_vars

\* C11: a PATCH or DELETE of an Issue or Comment R by a principal who is not
\* R's author, contributor of R's project or not, is denied and leaves R as
\* it was.
C11_OnlyAuthorMutatesIssueOrComment ==
    [][/\ response'.op = "issue_partial_update" =>
             \A i \in IssueIds, v \in Users \cup {NoUser}, a \in Users \cup {NoUser} :
                (/\ Issue_partial_update(response'.user, i, v, a)
                 /\ IssueExists(i) /\ IssueRow(i).author # response'.user) =>
                   response'.status \in DeniedStatuses /\ IssueRow(i) \in issues'
       /\ response'.op = "issue_destroy" =>
             \A i \in IssueIds :
                (/\ Issue_destroy(response'.user, i)
                 /\ IssueExists(i) /\ IssueRow(i).author # response'.user) =>
                   response'.status \in DeniedStatuses /\ IssueRow(i) \in issues'
       /\ response'.op = "comment_partial_update" =>
             \A c \in CommentIds, a \in Users \cup {NoUser} :
                (/\ Comment_partial_update(response'.user, c, a)
                 /\ CommentExists(c) /\ CommentRow(c).author # response'.user) =>
                   response'.status \in DeniedStatuses /\ CommentRow(c) \in comments'
       /\ response'.op = "comment_destroy" =>
             \A c \in CommentIds :
                (/\ Comment_destroy(response'.user, c)
                 /\ CommentExists(c) /\ CommentRow(c).author # response'.user) =>
                   response'.status \in DeniedStatuses /\ CommentRow(c) \in comments']_vars

\* C12: an Issue (a Comment) is returned to U by the list or by the detail
\* request only if U holds a Contributor row for the issue's project (the
\* comment's issue's project), and the detail request returns exactly the
\* rows the list returns to U.
C12_ReadScopedToContributors ==
    [][/\ response'.op = "issue_list" =>
             \A i \in response'.rows : ContributorExists(response'.user, i.project)
       /\ response'.op = "issue_retrieve" =>
             \A i \in IssueIds :
                Issue_retrieve(response'.user, i) =>
                   (response'.status = HTTP_200_OK <=>
                      /\ IssueExists(i)
                      /\ ContributorExists(response'.user, IssueRow(i).project))
       /\ response'.op = "comment_list" =>
             \A c \in response'.rows :
                \E i \in issues :
                   i.id = c.issue /\ ContributorExists(response'.user, i.project)
       /\ response'.op = "comment_retrieve" =>
             \A c \in CommentIds :
                Comment_retrieve(response'.user, c) =>
                   (response'.status = HTTP_200_OK <=>
                      /\ CommentExists(c)
                      /\ ContributorExists(response'.user,
                                           IssueRow(CommentRow(c).issue).project))]_vars

\* a comment list returned a row to one principal while another principal's
\* list is empty
C12_Witness ==
    /\ response.op = "comment_list"
    /\ response.rows # {}
    /\ \E u \in Users : Comment_get_queryset(u) = {}

\* C13: no state holds a Contributor or Issue row of a project that is gone,
\* or a Comment of an issue that is gone; a project deletion removes the
\* project's Contributor and Issue rows and the Comments of those issues in
\* the one step that removes the project, and leaves the rows of every other
\* project as they were.
C13_NoDanglingRows ==
    /\ \A c \in contributors : ProjectExists(c.project)
    /\ \A i \in issues : ProjectExists(i.project)
    /\ \A c \in comments : IssueExists(c.issue)

C13_ProjectDeleteCascadesAtomically ==
    /\ []C13_NoDanglingRows
    /\ [][response'.op = "project_destroy" =>
             \A p \in ProjectIds :
                (Project_destroy(response'.user, p)
                   /\ response'.status = HTTP_204_NO_CONTENT) =>
                   /\ ~\E c \in contributors' : c.project = p
                   /\ ~\E i \in issues' : i.project = p
                   /\ comments' = comments \ CommentsOfProject(p)
                   /\ RowsOutside(contributors', p) = RowsOutside(contributors, p)
                   /\ RowsOutside(issues', p) = RowsOutside(issues, p)
                   /\ projects' = projects \ {ProjectRow(p)}]_vars

\* a project was just deleted that had an issue with a comment, and the
\* comment is gone with it
C13_Witness ==
    /\ response.op = "project_destroy"
    /\ response.status = HTTP_204_NO_CONTENT
    /\ nextId.comment > 0
    /\ comments = {}
    /\ issues = {}
    /\ projects # {}

\* the k-th anniversary of birth_date is today or earlier
AnniversaryReached(birth_date, k) ==
    \/ birth_date.year + k < today.year
    \/ /\ birth_date.year + k = today.year
       /\ \/ birth_date.month < today.month
          \/ birth_date.month = today.month /\ birth_date.day <= today.day

\* C14: saving a user with birth date B on day T is rejected with a validation
\* failure exactly when B's 15th anniversary is after T; on the 15th birthday
\* itself, and without a birth date, the save is accepted and stores B; this
\* holds at registration and at every later save.
C14_AgeGate ==
    [][/\ response'.op = "register" =>
             \A name \in Registrants, b \in BirthDates \cup {NoDate} :
                (RegisterUser(name, b) /\ name \notin users) =>
                   /\ response'.status = HTTP_400_BAD_REQUEST <=>
                         (b # NoDate /\ ~AnniversaryReached(b, MinAge))
                   /\ response'.status # HTTP_400_BAD_REQUEST =>
                         response'.status = HTTP_201_CREATED /\ accounts'[name] = b
       /\ response'.op = "user_partial_update" =>
             \A t \in Registrants, b \in BirthDates \cup {NoDate} :
                (User_partial_update(t, b) /\ t \in users) =>
                   /\ response'.status = HTTP_400_BAD_REQUEST <=>
                         (b # NoDate /\ ~AnniversaryReached(b, MinAge))
                   /\ response'.status # HTTP_400_BAD_REQUEST =>
                         response'.status = HTTP_200_OK /\ accounts'[t] = b]_vars

\* somebody registered on their 15th birthday, and somebody else's update
\* the day before theirs was turned down
C14_Witness ==
    /\ \E u \in users :
          /\ accounts[u] # NoDate
          /\ accounts[u].year + MinAge = today.year
          /\ accounts[u].month = today.month
          /\ accounts[u].day = today.day
    /\ response.op = "user_partial_update"
    /\ response.status = HTTP_400_BAD_REQUEST

\* C15: a contributor list of project P requested by a principal who neither
\* holds a Contributor row for P nor is P's author returns no row.
C15_ContributorListScoped ==
    [][response'.op = "contributor_list" =>
          \A p \in ProjectIds :
             (/\ Contributor_list(response'.user, p)
              /\ ~ContributorExists(response'.user, p)
              /\ AuthorOf(p) # response'.user) =>
                response'.rows = {}]_vars

\* C16: a contributor deletion on (existing project P, contributor id C)
\* answers 403 and deletes nothing when the requester is not P's author,
\* whether or not a row C of P exists; for the author it answers 404 and
\* deletes nothing when no Contributor row with id C belongs to P; otherwise
\* it deletes exactly that row, leaves every other row as it was, and
\* answers 204.
C16_ContributorDeleteOrder ==
    [][response'.op = "contributor_destroy" =>
          \A p \in ProjectIds, cid \in ContributorIds :
             (Contributor_destroy(response'.user, p, cid) /\ ProjectExists(p)) =>
                IF AuthorOf(p) # response'.user
                THEN response'.status = HTTP_403_FORBIDDEN /\ store' = store
                ELSE IF ~\E c \in contributors : c.id = cid /\ c.project = p
                THEN response'.status = HTTP_404_NOT_FOUND /\ store' = store
                ELSE /\ response'.status = HTTP_204_NO_CONTENT
                     /\ contributors' =
                           contributors \ {c \in contributors : c.id = cid /\ c.project = p}
                     /\ Cardinality(contributors \ contributors') = 1
                     /\ UNCHANGED <<projects, issues, comments>>]_vars

\* a contributor of an existing project who is not its author was just
\* answered 403
C16_Witness ==
    /\ response.op = "contributor_destroy"
    /\ response.status = HTTP_403_FORBIDDEN
    /\ \E p \in ProjectIds :
          /\ ProjectExists(p)
          /\ AuthorOf(p) # response.user
          /\ ContributorExists(response.user, p)

\* C17: in every state, every Issue whose assigned_to is set has an assignee
\* who holds a Contributor row for the issue's project.
C17_AssigneeIsContributor ==
    \A i \in issues :
       i.assigned_to # NoUser => ContributorExists(i.assigned_to, i.project)

\* C18: deleting user U removes every Issue assigned to U or authored by U
\* with the Comments of those issues, U's projects (with their rows), U's
\* Contributor rows and U's comments; every Issue that survives is as it was,
\* and its assignee, when set, is an account that still exists.
C18_UserDeleteCascades ==
    [][(/\ response'.op = "user_destroy"
        /\ User_destroy(response'.user)
        /\ response'.status = HTTP_204_NO_CONTENT) =>
             /\ ~\E i \in issues' : i.assigned_to = response'.user \/ i.author = response'.user
             /\ ~\E c \in comments' : c.author = response'.user
             /\ ~\E r \in projects' : r.author = response'.user
             /\ ~\E c \in contributors' : c.user = response'.user
             /\ \A c \in comments' : \E i \in issues' : i.id = c.issue
             /\ \A i \in issues' : \E r \in projects' : r.id = i.project
             /\ \A c \in contributors' : \E r \in projects' : r.id = c.project
             /\ \A i \in issues' :
                   i \in issues /\ (i.assigned_to # NoUser => i.assigned_to \in DOMAIN accounts')
             /\ \A i \in issues \ issues' :
                   \/ i.assigned_to = response'.user
                   \/ i.author = response'.user
                   \/ AuthorOf(i.project) = response'.user]_vars

\* an account that owns no project was just deleted, and the one issue and
\* its comment went with it while both projects stay
C18_Witness ==
    /\ response.op = "user_destroy"
    /\ response.status = HTTP_204_NO_CONTENT
    /\ nextId.issue > 0 /\ issues = {}
    /\ nextId.comment > 0 /\ comments = {}
    /\ Cardinality(projects) = MaxProjects

=============================================================================
